---- MODULE Spec2Model ----
(***************************************************************************)
(* A model of agent_template.py: the AgentBridge HTTP client.              *)
(*                                                                         *)
(* The client is synchronous.  The only thing outside its control is what  *)
(* the bridge answers to each HTTP exchange, so every action draws the     *)
(* answer of the exchange it performs from the set of possible answers.    *)
(* Python strings that the code inspects (file names, commands, captured   *)
(* output) are sequences of one-character strings; strings the code only   *)
(* passes along are TLA+ strings.  A Python dict is a function whose       *)
(* domain is the set of keys present.                                      *)
(***************************************************************************)
EXTENDS Integers, Sequences, FiniteSets, TLC

VARIABLES
    self,     \* the instance's attributes: a dict with "host" and "port" once set
    pc,       \* where the client is: "start" (no instance yet), "discover" (in
              \* _discover_port), "noinstance" (the constructor raised), "ready"
              \* (between calls), "simple" (in a one-exchange method),
              \* "atr_copilot", "atr_run", "atr_slack" (in ask_then_run, before
              \* that exchange), "done" (the call returned or raised)
    call,     \* the call in progress or last finished: name and arguments
    idx,      \* _discover_port: position in BRIDGE_PORTS of the next probe
    reqs,     \* the HTTP requests issued by the current call, in order
    probes,   \* the answers received by the probes of _discover_port, in order
    resp,     \* the answer to the last HTTP exchange
    result,   \* ask_then_run: local variable result
    output,   \* ask_then_run: local variable output
    exc,      \* the exception that ended the current call, "" if none
    ret       \* what the last finished call returned: <<v>> for the value v, <<>>
              \* while nothing has been returned

vars == <<self, pc, call, idx, reqs, probes, resp, result, output, exc, ret>>

----------------------------------------------------------------------------
(* Bounds of the model *)

\* longest files_changed list the bridge answers with
MaxFiles == 2
\* longest stdout (in characters) the bridge answers with
MaxOut == 2

----------------------------------------------------------------------------
(* Configuration *)

BRIDGE_PORTS == <<3131, 3132, 3133, 3134>>
BRIDGE_HOST == "127.0.0.1"

----------------------------------------------------------------------------
(* Python dicts and truthiness *)

EmptyDict == [k \in {} |-> TRUE]

\* d[k] = v
Put(d, k, v) == (k :> v) @@ d

\* d.get(k, default)
DictGet(d, k, default) == IF k \in DOMAIN d THEN d[k] ELSE default

\* the dicts with at most the key k, its value in vals
Opt(k, vals) == {EmptyDict} \cup {Put(EmptyDict, k, v) : v \in vals}

\* bool(d.get("ok")): a missing key gives None, which is falsy
OkTruthy(d) == DictGet(d, "ok", FALSE)

\* bool(x) for a list or a string
NonEmpty(s) == s /= <<>>

None == "None"

----------------------------------------------------------------------------
(* What the bridge (or the network) can answer to one HTTP exchange *)

\* 399 and 400 are the two sides of the status test of _get and _post
Statuses == {200, 399, 400}

\* no answer at all: nothing listens, the socket times out, the body is no
\* JSON, or the body is JSON but not an object
FailureKinds == {"refused", "timeout", "badjson", "nondict"}

Failures == {[kind |-> k, status |-> 200, data |-> EmptyDict] : k \in FailureKinds}

Answers(datas) ==
    Failures \cup {[kind |-> "json", status |-> s, data |-> d] : s \in Statuses, d \in datas}

NoResp == [kind |-> "none", status |-> 200, data |-> EmptyDict]

\* a function's outcome: the exception it raises ("" if none) and its value
Raise(e) == [exc |-> e, data |-> EmptyDict]
Return(d) == [exc |-> "", data |-> d]

\* c.request(...); c.getresponse(); json.loads(resp.read())
Transport(r) ==
    CASE r.kind = "refused" -> "ConnectionRefusedError"
      [] r.kind = "timeout" -> "TimeoutError"
      [] r.kind = "badjson" -> "JSONDecodeError"
      [] OTHER -> ""

\* _raw_get followed by data.get("ok") in _discover_port
raw_get(r) ==
    IF Transport(r) /= "" THEN Raise(Transport(r))
    ELSE Return(r.data)

\* _get
get(r) ==
    IF Transport(r) /= "" THEN Raise(Transport(r))
    ELSE IF r.kind = "nondict" THEN Raise("AttributeError")
    ELSE IF ~OkTruthy(r.data) /\ r.status >= 400 THEN Raise("BridgeError")
    ELSE Return(r.data)

\* _post with "or" for "and" in its test: any error status or falsy ok raises
post_or(r) ==
    IF Transport(r) /= "" THEN Raise(Transport(r))
    ELSE IF r.kind = "nondict" THEN Raise("AttributeError")
    ELSE IF ~OkTruthy(r.data) \/ r.status >= 400 THEN Raise("BridgeError")
    ELSE Return(r.data)

\* _post
post(r) ==
    IF Transport(r) /= "" THEN Raise(Transport(r))
    ELSE IF r.kind = "nondict" THEN Raise("AttributeError")
    ELSE IF ~OkTruthy(r.data) /\ r.status >= 400 THEN Raise("BridgeError")
    ELSE Return(r.data)

\* one logged request: where it went, what it asked, how it ended
Req(verb, port, path, body, e) ==
    [verb |-> verb, host |-> self.host, port |-> port, path |-> path,
     body |-> body, exc |-> e]

----------------------------------------------------------------------------
(* Strings the code inspects *)

\* f.endswith(suffix)
EndsWith(f, suffix) ==
    /\ Len(f) >= Len(suffix)
    /\ SubSeq(f, Len(f) - Len(suffix) + 1, Len(f)) = suffix

Whitespace == {" ", "\n", "\t"}

RECURSIVE LStrip(_)
LStrip(s) == IF s /= <<>> /\ Head(s) \in Whitespace THEN LStrip(Tail(s)) ELSE s

RECURSIVE RStrip(_)
RStrip(s) ==
    IF s /= <<>> /\ s[Len(s)] \in Whitespace THEN RStrip(SubSeq(s, 1, Len(s) - 1)) ELSE s

\* s.strip()
Strip(s) == RStrip(LStrip(s))

\* s[:n]
Take(s, n) == SubSeq(s, 1, IF Len(s) < n THEN Len(s) ELSE n)

DotPy == <<".", "p", "y">>
DotJs == <<".", "j", "s">>

\* f"python \"{f}\"" and f"node \"{f}\""
PyCmd(f) == <<"p", "y", "t", "h", "o", "n", " ", "\"">> \o f \o <<"\"">>
NodeCmd(f) == <<"n", "o", "d", "e", " ", "\"">> \o f \o <<"\"">>

\* no command: the loop of ask_then_run ended without a break
NoCmd == <<>>

\* the scan that looks for a .py entry in the whole list before any .js entry
run_scan_py_first(files) ==
    LET py == SelectSeq(files, LAMBDA f : EndsWith(f, DotPy))
        js == SelectSeq(files, LAMBDA f : EndsWith(f, DotJs)) IN
    IF py /= <<>> THEN PyCmd(Head(py))
    ELSE IF js /= <<>> THEN NodeCmd(Head(js))
    ELSE NoCmd

\* ask_then_run: the loop over files_changed; the command of the first entry that
\* ends in .py or .js, NoCmd when the loop ends without one
RECURSIVE run_scan(_)
run_scan(files) ==
    IF files = <<>> THEN NoCmd
    ELSE IF EndsWith(Head(files), DotPy) THEN PyCmd(Head(files))
    ELSE IF EndsWith(Head(files), DotJs) THEN NodeCmd(Head(files))
    ELSE run_scan(Tail(files))

\* the file names the bridge reports: a.py, b.js, d.pyc and the bare name py
FileNames ==
    { <<"a", ".", "p", "y">>, <<"b", ".", "j", "s">>,
      <<"d", ".", "p", "y", "c">>, <<"p", "y">> }

FileLists == UNION {[1..n -> FileNames] : n \in 0..MaxFiles}

\* the stdout texts the bridge reports
Outs == UNION {[1..n -> {" ", "x"}] : n \in 0..MaxOut}

----------------------------------------------------------------------------
(* Construction and port discovery *)

Hosts == {BRIDGE_HOST, "192.168.0.7"}

\* the port argument: <<>> is None, <<n>> is the integer n
PortArgs == {<<>>, <<0>>, <<3133>>, <<8080>>}

\* "port is not None" for bool(port)
PortNotNone(a) == a /= <<>>

\* bool(port)
PortTruthy(a) == a /= <<>> /\ a[1] /= 0

NoCall == [name |-> "", args |-> EmptyDict]

Init ==
    /\ self = EmptyDict
    /\ pc = "start"
    /\ call = NoCall
    /\ idx = 1
    /\ reqs = <<>>
    /\ probes = <<>>
    /\ resp = NoResp
    /\ result = EmptyDict
    /\ output = <<>>
    /\ exc = ""
    /\ ret = <<>>

\* __init__: self.host = host; self.port = port or self._discover_port()
Construct ==
    /\ pc = "start"
    /\ \E h \in Hosts, a \in PortArgs :
        /\ call' = [name |-> "__init__", args |-> [host |-> h, port |-> a]]
        /\ IF PortTruthy(a)
           THEN /\ self' = Put(Put(self, "host", h), "port", a[1])
                /\ pc' = "done"
           ELSE /\ self' = Put(self, "host", h)
                /\ pc' = "discover"
    /\ UNCHANGED <<idx, reqs, probes, resp, result, output, exc, ret>>

\* the body of the try in _discover_port: the exception it raises, "" if none
\* (data.get on a body that is no object raises too)
probe_exc(r) ==
    IF raw_get(r).exc /= "" THEN raw_get(r).exc
    ELSE IF r.kind = "nondict" THEN "AttributeError"
    ELSE ""

\* a probe that returns its port on any answer that parses, whatever its "ok"
probe_ok_any(r) == probe_exc(r) = ""

\* _discover_port: the probe returns its port
probe_ok(r) == probe_exc(r) = "" /\ OkTruthy(raw_get(r).data)

\* _discover_port: one iteration of the loop over BRIDGE_PORTS, and the raise that
\* follows the loop when the iteration was the last one
Probe ==
    /\ pc = "discover"
    /\ idx <= Len(BRIDGE_PORTS)
    /\ \E r \in Answers(Opt("ok", BOOLEAN)) :
        LET p == BRIDGE_PORTS[idx] IN
        /\ resp' = r
        /\ probes' = Append(probes, r)
        /\ reqs' = Append(reqs, Req("GET", p, "/health", EmptyDict, probe_exc(r)))
        /\ IF probe_ok(r)
           THEN /\ self' = Put(self, "port", p)
                /\ pc' = "done"
                /\ UNCHANGED <<idx, exc>>
           ELSE IF idx < Len(BRIDGE_PORTS)
           THEN /\ idx' = idx + 1
                /\ UNCHANGED <<self, pc, exc>>
           ELSE /\ idx' = idx + 1
                /\ exc' = "BridgeError"
                /\ pc' = "noinstance"
                /\ UNCHANGED self
    /\ UNCHANGED <<call, result, output, ret>>

\* the caller is done with the outcome of a call; the instance is all that remains
Forget ==
    /\ pc = "done"
    /\ pc' = "ready"
    /\ call' = NoCall
    /\ idx' = 1
    /\ reqs' = <<>>
    /\ probes' = <<>>
    /\ resp' = NoResp
    /\ result' = EmptyDict
    /\ output' = <<>>
    /\ exc' = ""
    /\ ret' = <<>>
    /\ UNCHANGED self

----------------------------------------------------------------------------
(* The methods that perform one exchange *)

\* name, HTTP verb and path of each method, the key of the answer it returns
\* ("" when it returns the whole dict) and the payload key the bridge may answer with
M(name, verb, path, key, payload) ==
    [name |-> name, verb |-> verb, path |-> path, key |-> key, payload |-> payload]

Methods ==
    { M("health", "GET", "/health", "", ""),
      M("workspace_info", "GET", "/workspace-info", "", ""),
      M("log", "GET", "/log", "entries", "entries"),
      M("prompt", "POST", "/prompt", "text", "text"),
      M("copilot_task", "POST", "/copilot-task", "", "files_changed"),
      M("read_file", "GET", "/read-file", "content", "content"),
      M("write_file", "POST", "/write-file", "bytes", "bytes"),
      M("apply_edit", "POST", "/apply-edit", "ok", ""),
      M("list_dir", "GET", "/list-dir", "entries", "entries"),
      M("run_terminal", "POST", "/run-terminal", "", "stdout"),
      M("run_and_capture", "POST", "/run-terminal", "stdout", "stdout"),
      M("open_file", "POST", "/open-file", "ok", ""),
      M("diagnostics", "GET", "/diagnostics", "", ""),
      M("exec_command", "POST", "/exec-command", "result", "result"),
      M("show_message", "POST", "/show-message", "ok", ""),
      M("keep_going", "POST", "/keep-going", "commands_run", "commands_run"),
      M("auto_dismiss", "POST", "/auto-dismiss", "active", "active"),
      M("auto_dismiss_status", "GET", "/auto-dismiss", "active", "active"),
      M("watch_start", "POST", "/watch-start", "watch_id", "watch_id"),
      M("watch_result", "GET", "/watch-result", "files", "files"),
      M("changes_since", "GET", "/changes-since", "files", "files"),
      M("pending_approvals", "GET", "/pending-approvals", "files", "files"),
      M("accept_edits", "POST", "/accept-edits", "ok", ""),
      M("reject_edits", "POST", "/reject-edits", "ok", ""),
      M("slack_post", "POST", "/slack-post", "ok", ""),
      M("desktop_type", "POST", "/desktop-type", "ok", "") }

Method(name) == CHOOSE m \in Methods : m.name = name

\* the values the bridge may give the payload key
PayloadVals(key) ==
    CASE key = "files_changed" -> FileLists
      [] key = "stdout" -> Outs
      [] key = "active" -> BOOLEAN
      [] key = "bytes" -> {5}
      [] key \in {"entries", "commands_run", "files"} -> {<<"item">>}
      [] OTHER -> {"text"}

\* the answers the bridge may give to a method's request
Datas(payload) ==
    IF payload = "" THEN Opt("ok", BOOLEAN)
    ELSE {a @@ b : a \in Opt("ok", BOOLEAN), b \in Opt(payload, PayloadVals(payload))}

\* the second argument of the .get(...) that ends the method
Default(m, args) ==
    CASE m.key = "ok" -> FALSE
      [] m.name = "auto_dismiss" -> args.active
      [] m.key = "active" -> FALSE
      [] m.key = "bytes" -> 0
      [] m.key \in {"entries", "commands_run", "files", "stdout"} -> <<>>
      [] m.key = "result" -> None
      [] OTHER -> ""

\* what the method makes of the dict _get or _post returned
Unwrap(m, args, data) ==
    IF m.key = "" THEN data
    ELSE IF m.name = "run_and_capture" THEN Strip(DictGet(data, "stdout", <<>>))
    ELSE DictGet(data, m.key, Default(m, args))

\* the arguments of a method that the model keeps
ArgsOf(m) ==
    IF m.name = "auto_dismiss" THEN {[active |-> b] : b \in BOOLEAN} ELSE {EmptyDict}

\* Invoke that falls back to the first default port before the call
InvokeRebind ==
    /\ pc = "ready"
    /\ \E m \in Methods : \E a \in ArgsOf(m) :
        call' = [name |-> m.name, args |-> a]
    /\ pc' = "simple"
    /\ self' = Put(self, "port", BRIDGE_PORTS[1])
    /\ UNCHANGED <<idx, reqs, probes, resp, result, output, exc, ret>>

\* a one-exchange method is called
Invoke ==
    /\ pc = "ready"
    /\ \E m \in Methods : \E a \in ArgsOf(m) :
        call' = [name |-> m.name, args |-> a]
    /\ pc' = "simple"
    /\ UNCHANGED <<self, idx, reqs, probes, resp, result, output, exc, ret>>

\* Exchange with one retry: a request that raised is issued a second time
ExchangeRetry ==
    /\ pc = "simple"
    /\ LET m == Method(call.name) IN
       \E r1 \in Answers(Datas(m.payload)), r2 \in Answers(Datas(m.payload)) :
        LET o1 == IF m.verb = "GET" THEN get(r1) ELSE post(r1)
            o2 == IF m.verb = "GET" THEN get(r2) ELSE post(r2)
            again == o1.exc /= ""
            o == IF again THEN o2 ELSE o1 IN
        /\ resp' = IF again THEN r2 ELSE r1
        /\ reqs' = IF again
                   THEN <<Req(m.verb, self.port, m.path, EmptyDict, o1.exc),
                          Req(m.verb, self.port, m.path, EmptyDict, o2.exc)>>
                   ELSE <<Req(m.verb, self.port, m.path, EmptyDict, o1.exc)>>
        /\ exc' = o.exc
        /\ ret' = IF o.exc /= "" THEN <<>> ELSE <<Unwrap(m, call.args, o.data)>>
    /\ pc' = "done"
    /\ UNCHANGED <<self, call, idx, probes, result, output>>

\* the method's exchange (_get or _post) and its return
Exchange ==
    /\ pc = "simple"
    /\ LET m == Method(call.name) IN
       \E r \in Answers(Datas(m.payload)) :
        LET o == IF m.verb = "GET" THEN get(r) ELSE post(r) IN
        /\ resp' = r
        /\ reqs' = Append(reqs, Req(m.verb, self.port, m.path, EmptyDict, o.exc))
        /\ exc' = o.exc
        /\ ret' = IF o.exc /= "" THEN <<>> ELSE <<Unwrap(m, call.args, o.data)>>
    /\ pc' = "done"
    /\ UNCHANGED <<self, call, idx, probes, result, output>>

----------------------------------------------------------------------------
(* ask_then_run *)

\* the command ask_then_run runs after copilot_task returned res, NoCmd if none
run_cmd(args, res) ==
    IF args.run_result /\ NonEmpty(DictGet(res, "files_changed", <<>>))
    THEN run_scan(res["files_changed"])
    ELSE NoCmd

\* the text of the Slack message: the changed files and the head of the output
slack_msg(res, out) ==
    [changed |-> DictGet(res, "files_changed", <<>>), output |-> Take(out, 500)]

\* result["run_output"] = output; return result
atr_return(res, out) == Put(res, "run_output", out)

\* ask_then_run is called
InvokeAskThenRun ==
    /\ pc = "ready"
    /\ \E rr \in BOOLEAN, sr \in BOOLEAN :
        call' = [name |-> "ask_then_run", args |-> [run_result |-> rr, slack_report |-> sr]]
    /\ pc' = "atr_copilot"
    /\ UNCHANGED <<self, idx, reqs, probes, resp, result, output, exc, ret>>

\* the pipeline with the Slack post ahead of the run
AtrContinueSlackFirst(at, res, out) ==
    IF at = "atr_copilot" /\ call.args.slack_report
    THEN pc' = "atr_slack" /\ result' = res /\ ret' = ret
    ELSE IF at /= "atr_run" /\ run_cmd(call.args, res) /= NoCmd
    THEN pc' = "atr_run" /\ result' = res /\ ret' = ret
    ELSE pc' = "done" /\ result' = atr_return(res, out) /\ ret' = <<atr_return(res, out)>>

\* what follows step `at` of ask_then_run once it has not raised: the run, the
\* Slack post, or the return of result (the dict itself, with run_output set)
AtrContinue(at, res, out) ==
    IF at = "atr_copilot" /\ run_cmd(call.args, res) /= NoCmd
    THEN pc' = "atr_run" /\ result' = res /\ ret' = ret
    ELSE IF at /= "atr_slack" /\ call.args.slack_report
    THEN pc' = "atr_slack" /\ result' = res /\ ret' = ret
    ELSE pc' = "done" /\ result' = atr_return(res, out) /\ ret' = <<atr_return(res, out)>>

\* result = self.copilot_task(task_description, auto_accept=True); output = ""
AtrCopilot ==
    /\ pc = "atr_copilot"
    /\ \E r \in Answers(Datas("files_changed")) :
        LET o == post(r) IN
        /\ resp' = r
        /\ reqs' = Append(reqs, Req("POST", self.port, "/copilot-task", EmptyDict, o.exc))
        /\ exc' = o.exc
        /\ IF o.exc /= ""
           THEN pc' = "done" /\ UNCHANGED <<result, output, ret>>
           ELSE /\ output' = <<>>
                /\ AtrContinue("atr_copilot", o.data, <<>>)
    /\ UNCHANGED <<self, call, idx, probes>>

\* AtrRun with the run wrapped in try/except: a failed run leaves output empty
AtrRunSwallow ==
    /\ pc = "atr_run"
    /\ \E r \in Answers(Datas("stdout")) :
        LET o == post(r)
            body == [command |-> run_cmd(call.args, result), capture_output |-> TRUE]
            out == IF o.exc /= "" THEN <<>>
                   ELSE Unwrap(Method("run_and_capture"), EmptyDict, o.data) IN
        /\ resp' = r
        /\ reqs' = Append(reqs, Req("POST", self.port, "/run-terminal", body, o.exc))
        /\ exc' = ""
        /\ output' = out
        /\ AtrContinue("atr_run", result, out)
    /\ UNCHANGED <<self, call, idx, probes>>

\* output = self.run_and_capture(...)
AtrRun ==
    /\ pc = "atr_run"
    /\ \E r \in Answers(Datas("stdout")) :
        LET o == post(r)
            body == [command |-> run_cmd(call.args, result), capture_output |-> TRUE] IN
        /\ resp' = r
        /\ reqs' = Append(reqs, Req("POST", self.port, "/run-terminal", body, o.exc))
        /\ exc' = o.exc
        /\ IF o.exc /= ""
           THEN pc' = "done" /\ UNCHANGED <<result, output, ret>>
           ELSE LET out == Unwrap(Method("run_and_capture"), EmptyDict, o.data) IN
                /\ output' = out
                /\ AtrContinue("atr_run", result, out)
    /\ UNCHANGED <<self, call, idx, probes>>

\* AtrSlack with one retry: a Slack post that raised is issued a second time
AtrSlackRetry ==
    /\ pc = "atr_slack"
    /\ \E r \in Answers(Datas("")) :
        LET o == post(r)
            body == [text |-> slack_msg(result, output)]
            first == \A i \in 1..Len(reqs) : reqs[i].path /= "/slack-post" IN
        /\ resp' = r
        /\ reqs' = Append(reqs, Req("POST", self.port, "/slack-post", body, o.exc))
        /\ IF o.exc /= "" /\ first
           THEN pc' = "atr_slack" /\ exc' = "" /\ UNCHANGED <<result, ret>>
           ELSE IF o.exc /= ""
           THEN pc' = "done" /\ exc' = o.exc /\ UNCHANGED <<result, ret>>
           ELSE exc' = "" /\ AtrContinue("atr_slack", result, output)
    /\ UNCHANGED <<self, call, idx, probes, output>>

\* self.slack_post(msg)
AtrSlack ==
    /\ pc = "atr_slack"
    /\ \E r \in Answers(Datas("")) :
        LET o == post(r)
            body == [text |-> slack_msg(result, output)] IN
        /\ resp' = r
        /\ reqs' = Append(reqs, Req("POST", self.port, "/slack-post", body, o.exc))
        /\ exc' = o.exc
        /\ IF o.exc /= ""
           THEN pc' = "done" /\ UNCHANGED <<result, ret>>
           ELSE AtrContinue("atr_slack", result, output)
    /\ UNCHANGED <<self, call, idx, probes, output>>

----------------------------------------------------------------------------

Next ==
    \/ Construct
    \/ Probe
    \/ Forget
    \/ Invoke
    \/ Exchange
    \/ InvokeAskThenRun
    \/ AtrCopilot
    \/ AtrRun
    \/ AtrSlack

Spec == Init /\ [][Next]_vars

----------------------------------------------------------------------------
(* Vocabulary of the properties *)

\* the answer is a JSON object with a truthy "ok"
Qualifies(r) == r.kind = "json" /\ "ok" \in DOMAIN r.data /\ r.data["ok"] = TRUE

\* the answer is a transport failure, or an error status without a truthy "ok"
Failed(r) ==
    \/ r.kind \in FailureKinds
    \/ r.kind = "json" /\ r.status >= 400 /\ ~Qualifies(r)

MethodNames == {m.name : m \in Methods}

BooleanMethods ==
    {"apply_edit", "open_file", "show_message", "accept_edits", "reject_edits",
     "slack_post", "desktop_type"}

InCtor == call.name = "__init__"
Discovers == InCtor /\ call.args.port \in {<<>>, <<0>>}
InPipeline == call.name = "ask_then_run"

\* the name ends in ".py" / ".js", letter by letter
IsPy(f) == Len(f) >= 3 /\ f[Len(f) - 2] = "." /\ f[Len(f) - 1] = "p" /\ f[Len(f)] = "y"
IsJs(f) == Len(f) >= 3 /\ f[Len(f) - 2] = "." /\ f[Len(f) - 1] = "j" /\ f[Len(f)] = "s"

\* the positions of files that hold the first entry ending in .py or .js
FirstRunnable(files) ==
    {i \in 1..Len(files) :
        /\ IsPy(files[i]) \/ IsJs(files[i])
        /\ \A j \in 1..(i - 1) : ~(IsPy(files[j]) \/ IsJs(files[j]))}

\* the command line that runs f
CommandFor(f) ==
    IF IsPy(f) THEN <<"p", "y", "t", "h", "o", "n", " ", "\"">> \o f \o <<"\"">>
    ELSE <<"n", "o", "d", "e", " ", "\"">> \o f \o <<"\"">>

\* the positions in reqs of the requests to path
At(path) == {i \in 1..Len(reqs) : reqs[i].path = path}

\* the place of each request of the pipeline
Rank(path) ==
    CASE path = "/copilot-task" -> 1
      [] path = "/run-terminal" -> 2
      [] path = "/slack-post" -> 3
      [] OTHER -> 0

\* the files the copilot_task of the pipeline reported
Changed == DictGet(result, "files_changed", <<>>)

----------------------------------------------------------------------------
(* Properties *)

\* C1: whenever the last exchange of a call (or of the constructor) failed at the
\* transport level, or was answered with an error status and no truthy ok, the
\* call ends with BridgeError and no other exception.
C1_FailureRaisesBridgeError ==
    (pc \in {"done", "noinstance"} /\ Failed(resp)) => exc = "BridgeError"

\* C2: discovery probes GET /health on 3131, 3132, 3133, 3134 in that order; it
\* goes on to the next port exactly while no probe has answered with a truthy ok,
\* returns the first port that did, and raises BridgeError, leaving no port set,
\* when all four did not.
C2_DiscoveryFirstHealthyPort ==
    /\ pc \in {"discover", "noinstance"} => Discovers
    /\ Discovers =>
        /\ Len(probes) = Len(reqs)
        /\ Len(reqs) <= 4
        /\ \A i \in 1..Len(reqs) :
            /\ reqs[i].verb = "GET" /\ reqs[i].path = "/health"
            /\ reqs[i].port = <<3131, 3132, 3133, 3134>>[i]
            /\ reqs[i].host = call.args.host
        /\ \A i \in 1..(Len(probes) - 1) : ~Qualifies(probes[i])
        /\ pc \in {"discover", "done", "noinstance"}
        /\ pc = "discover" =>
            /\ Len(probes) < 4
            /\ \A i \in 1..Len(probes) : ~Qualifies(probes[i])
            /\ "port" \notin DOMAIN self
        /\ pc = "done" =>
            /\ Len(probes) >= 1
            /\ Qualifies(probes[Len(probes)])
            /\ self.port = <<3131, 3132, 3133, 3134>>[Len(probes)]
        /\ pc = "noinstance" =>
            /\ Len(probes) = 4
            /\ \A i \in 1..4 : ~Qualifies(probes[i])
            /\ exc = "BridgeError"
            /\ "port" \notin DOMAIN self

\* a discovery that skipped a port that raised and a port that answered ok: false
C2_Witness ==
    /\ pc = "done" /\ Discovers
    /\ Len(probes) = 3
    /\ probes[1].kind = "refused"
    /\ probes[2].kind = "json" /\ probes[2].data = [ok |-> FALSE]
    /\ self.port = 3133

\* C3 as stated: every finished call of a public method has issued exactly one
\* request, to the instance's host and port.
C3_OneRoundTripPerCall ==
    (pc = "done" /\ ~InCtor) =>
        /\ Len(reqs) = 1
        /\ reqs[1].host = self.host /\ reqs[1].port = self.port

\* C3 amended: every finished call of a public method other than ask_then_run has
\* issued exactly one request; a finished ask_then_run has issued one, two or
\* three; every request went to the instance's host and port.
C3_OneRoundTripExceptPipeline ==
    (pc = "done" /\ ~InCtor) =>
        /\ \A i \in 1..Len(reqs) :
            reqs[i].host = self.host /\ reqs[i].port = self.port
        /\ ~InPipeline => Len(reqs) = 1
        /\ InPipeline => Len(reqs) \in 1..3

\* an ask_then_run that made three round trips
C3_Witness == pc = "done" /\ InPipeline /\ Len(reqs) = 3 /\ exc = ""

\* C4: once copilot_task has returned, a finished ask_then_run has run exactly one
\* command, python or node on the first entry of files_changed ending in .py or
\* .js, when run_result is true and there is such an entry; otherwise it has run
\* nothing and the run_output it returns is the empty string.
C4_RunsFirstChangedFile ==
    (pc = "done" /\ InPipeline /\ reqs[1].exc = "") =>
        IF call.args.run_result /\ FirstRunnable(Changed) /= {}
        THEN /\ Cardinality(At("/run-terminal")) = 1
             /\ \A i \in At("/run-terminal") : \A k \in FirstRunnable(Changed) :
                 reqs[i].body.command = CommandFor(Changed[k])
        ELSE /\ At("/run-terminal") = {}
             /\ exc = "" => ret[1]["run_output"] = <<>>

\* b.js comes before a.py: node ran b.js, and its output came back
C4_Witness ==
    /\ pc = "done" /\ InPipeline /\ exc = ""
    /\ Changed = << <<"b", ".", "j", "s">>, <<"a", ".", "p", "y">> >>
    /\ Cardinality(At("/run-terminal")) = 1
    /\ ret[1]["run_output"] = <<"x">>

\* the requests of the pipeline come in the order copilot-task, run-terminal,
\* slack-post, each at most once, each issued after the one before it returned
PipelineOrder ==
    InPipeline =>
        /\ Len(reqs) >= 1 => reqs[1].path = "/copilot-task"
        /\ \A i \in 1..Len(reqs) : \A j \in 1..Len(reqs) :
            i < j => Rank(reqs[i].path) < Rank(reqs[j].path) /\ reqs[i].exc = ""
        /\ \A i \in 1..Len(reqs) : Rank(reqs[i].path) > 0

\* on normal return the result is the copilot_task dict with run_output set to
\* the captured output
PipelineResult ==
    (pc = "done" /\ InPipeline /\ exc = "") =>
        /\ ret = <<result>>
        /\ "run_output" \in DOMAIN result /\ result["run_output"] = output
        /\ Len(reqs) = 1 => result = Put(resp.data, "run_output", <<>>)
        /\ reqs[Len(reqs)].path = "/run-terminal" =>
            output = Strip(DictGet(resp.data, "stdout", <<>>))
        /\ At("/run-terminal") = {} => output = <<>>

\* C5 as stated: the pipeline keeps its order, posts to Slack exactly once when
\* slack_report is true and never when it is false, and returns the copilot_task
\* dict with run_output.
C5_PipelineSlackIffRequested ==
    /\ PipelineOrder
    /\ PipelineResult
    /\ (pc = "done" /\ InPipeline) =>
        Cardinality(At("/slack-post")) = IF call.args.slack_report THEN 1 ELSE 0

\* C5 amended: the same, with the Slack post made exactly once when slack_report
\* is true and neither copilot_task nor the run raised, and never otherwise.
C5_PipelineSlackIfReached ==
    /\ PipelineOrder
    /\ PipelineResult
    /\ (pc = "done" /\ InPipeline) =>
        Cardinality(At("/slack-post")) =
            IF /\ call.args.slack_report
               /\ \A i \in 1..Len(reqs) : reqs[i].path = "/slack-post" \/ reqs[i].exc = ""
            THEN 1 ELSE 0

\* the whole pipeline: task, run, Slack post, normal return with the output
C5_Witness ==
    /\ pc = "done" /\ InPipeline /\ exc = ""
    /\ Len(reqs) = 3
    /\ call.args.slack_report
    /\ ret[1]["run_output"] = <<"x", "x">>

\* C6: no call addresses the same endpoint twice; outside discovery a request that
\* raised is the last of its call, which ends with that exception; discovery
\* probes each port at most once and none after the first that qualified.
C6_NoRetries ==
    /\ \A i \in 1..Len(reqs) : \A j \in 1..Len(reqs) :
        i < j => ~(/\ reqs[i].port = reqs[j].port
                   /\ reqs[i].path = reqs[j].path
                   /\ reqs[i].verb = reqs[j].verb)
    /\ ~InCtor =>
        \A i \in 1..Len(reqs) :
            reqs[i].exc /= "" => i = Len(reqs) /\ pc = "done" /\ exc = reqs[i].exc
    /\ \A i \in 1..(Len(probes) - 1) : ~Qualifies(probes[i])
    /\ Len(probes) = Len(reqs) \/ probes = <<>>

\* a prompt that timed out: one request, then the error
C6_Witness ==
    pc = "done" /\ call.name = "prompt" /\ exc = "TimeoutError" /\ Len(reqs) = 1

\* the requests of a method call went to the instance's host and port
RequestsToInstance ==
    (call.name /= "" /\ ~InCtor) =>
        \A i \in 1..Len(reqs) : reqs[i].host = self.host /\ reqs[i].port = self.port

\* C7: once construction has set host and port, no step changes either, and every
\* request of every method call goes to that host and port.
C7_InstanceNeverChanges ==
    /\ []RequestsToInstance
    /\ [][("port" \in DOMAIN self) => self' = self]_vars

\* a failed pipeline on an instance that discovery put on the last port
C7_Witness ==
    /\ pc = "done" /\ InPipeline /\ exc /= ""
    /\ Len(reqs) = 2
    /\ self.port = 3134 /\ self.host /= BRIDGE_HOST

C9_FailureStopsPipeline ==
    InPipeline =>
        /\ \A i \in 1..Len(reqs) :
            reqs[i].exc /= "" =>
                /\ i = Len(reqs) /\ pc = "done" /\ exc = reqs[i].exc
                /\ ret = <<>>
                /\ reqs[i].path = "/copilot-task" => Len(reqs) = 1
                /\ reqs[i].path = "/run-terminal" => At("/slack-post") = {}
                /\ (/\ reqs[i].path = "/slack-post"
                    /\ call.args.run_result
                    /\ FirstRunnable(Changed) /= {}) =>
                    \E j \in 1..(i - 1) :
                        reqs[j].path = "/run-terminal" /\ reqs[j].exc = ""
        /\ (pc = "done" /\ exc /= "") => reqs[Len(reqs)].exc = exc

\* the Slack post raised after the command had run
C9_Witness ==
    /\ pc = "done" /\ InPipeline
    /\ Len(reqs) = 3
    /\ reqs[2].exc = "" /\ reqs[3].exc = "ConnectionRefusedError"
    /\ exc = "ConnectionRefusedError"

\* C10: the constructor given a non-zero port has issued no request and holds
\* that port; given None or 0 it has run discovery and holds one of 3131..3134.
C10_ConstructorPort ==
    (pc = "done" /\ InCtor) =>
        LET a == call.args.port IN
        /\ self.host = call.args.host
        /\ IF a /= <<>> /\ a[1] /= 0
           THEN reqs = <<>> /\ self.port = a[1]
           ELSE /\ self.port \in {3131, 3132, 3133, 3134}
                /\ self.port /= 0
                /\ Len(reqs) >= 1

\* AgentBridge(port=0) ran discovery and landed on 3131
C10_Witness ==
    pc = "done" /\ InCtor /\ call.args.port = <<0>> /\ self.port = 3131

====
